---- MODULE Spec2Model ----
(***************************************************************************)
(* Safety-gated experiment execution engine of chaos_monkey:               *)
(* SafetyController (safety/controls.py) and ExperimentExecutor            *)
(* (experiments/executor.py), with the experiment catalog                  *)
(* (experiments/registry.py and the variant modules).                      *)
(*                                                                         *)
(* Everything runs on one asyncio event loop, so control changes hands     *)
(* only where a coroutine is suspended: while a variant's execute or       *)
(* rollback is awaited.  Every action below is the code that runs between  *)
(* two such points.                                                        *)
(*                                                                         *)
(* Spec:     one run_plan invocation (its run_one calls are invocation     *)
(*           Runner) on a controller whose ledger may hold registrations   *)
(*           of other campaigns in flight.                                 *)
(* SpecConc: NumCallers run_one invocations of concurrent campaigns on one *)
(*           controller.                                                   *)
(* SpecValidate: validate_plan calls on a controller whose ledger holds    *)
(*           the registrations of campaigns in flight.                     *)
(* SpecLive: Spec with rollbacks that block the event loop, under the      *)
(*           fairness of the event loop.                                   *)
(* SpecRollback: one call of a variant's rollback with a captured context. *)
(* SpecRegistry: constructions of ExperimentRegistry and get calls in one  *)
(*           process.                                                      *)
(* SpecCluster: one run_one of a variant of the repository against the     *)
(*           resources of a cluster.                                       *)
(* SpecGraph: the command line's execute and run commands, the latter      *)
(*           through the workflow graph; SpecGraphLive adds the event      *)
(*           loop's progress.                                              *)
(***************************************************************************)
EXTENDS Integers, Sequences, FiniteSets, TLC

\* ------------------------------------------------------------------ bounds
NumCallers == 2          \* concurrent run_one invocations (SpecConc)
MaxPlanLen == 2          \* longest plan handed to run_plan (Spec)
MaxInFlight == 1         \* other campaigns' registrations while run_plan runs (Spec)
MaxConcurrent == 2       \* largest max_concurrent_experiments configured
MaxValidations == 2      \* validate_plan calls on the same entries (SpecValidate)
MaxConstructions == 2    \* ExperimentRegistry() constructions in one process (SpecRegistry)
MaxReplicas == 2         \* largest replica count of the target deployment (SpecCluster)

\* ------------------------------------------------------------- vocabulary
LOW == "low"
MEDIUM == "medium"
HIGH == "high"
BlastRadius == {LOW, MEDIUM, HIGH}

PENDING == "pending"
RUNNING == "running"
COMPLETED == "completed"
FAILED == "failed"
ROLLED_BACK == "rolled_back"
SKIPPED == "skipped"
ExperimentStatus == {PENDING, RUNNING, COMPLETED, FAILED, ROLLED_BACK, SKIPPED}

None == <<>>              \* Python None: the empty sequence; a present value is non-empty
Absent == "<absent>"     \* a key the plan entry does not carry

\* The concrete ChaosExperiment subclasses: declared name and blast_radius.
Variants ==
  { <<"pod-kill", LOW>>, <<"pod-restart", MEDIUM>>, <<"cpu-stress", LOW>>,
    <<"memory-stress", MEDIUM>>, <<"node-drain", HIGH>>, <<"node-cordon", MEDIUM>>,
    <<"network-latency", MEDIUM>>, <<"packet-loss", MEDIUM>>,
    <<"network-partition", HIGH>>, <<"dns-failure", HIGH>>,
    <<"disk-stress", MEDIUM>>, <<"disk-fill", MEDIUM>>,
    <<"http-error-injection", LOW>>, <<"configmap-mutation", MEDIUM>>,
    <<"secret-deletion", HIGH>> }

\* ExperimentRegistry.list_names
list_names == { v[1] : v \in Variants }

\* ExperimentRegistry.get: the class whose name attribute equals name, or None.
get(name) ==
  IF \E v \in Variants : v[1] = name
    THEN CHOOSE v \in Variants : v[1] = name
    ELSE None

\* experiment.blast_radius of an instance of the class get returned
blast_radius(exp_cls) == exp_cls[2]

\* The statuses a variant's execute puts in the record it returns: every
\* variant returns COMPLETED; configmap-mutation returns SKIPPED when the
\* ConfigMap has no data.
ExecuteStatuses(name) ==
  IF name = "configmap-mutation" THEN {COMPLETED, SKIPPED} ELSE {COMPLETED}

\* ------------------------------------------------------------------ inputs
PlanEntry(experiment, target, namespace) ==
  [experiment |-> experiment, target |-> target, namespace |-> namespace]

\* The plan entries callers hand in: a LOW, a MEDIUM and a HIGH variant, two
\* targets, an entry without namespace, an excluded namespace, and a name no
\* variant declares.
Entries ==
  { PlanEntry("pod-kill", "web", Absent),
    PlanEntry("configmap-mutation", "web", "default"),
    PlanEntry("configmap-mutation", "db", "default"),
    PlanEntry("node-drain", "web", "default"),
    PlanEntry("configmap-mutation", "web", "kube-system"),
    PlanEntry("no-such-experiment", "web", "default") }

\* The entries concurrent callers hand to run_one: two names, two targets, an
\* entry without namespace, and a name no variant declares.
ConcEntries ==
  { PlanEntry("pod-kill", "web", Absent),
    PlanEntry("configmap-mutation", "web", "default"),
    PlanEntry("configmap-mutation", "db", "default"),
    PlanEntry("no-such-experiment", "web", "default") }

\* messages of the failures a variant's execute raises
ExecErrors == {"ApiException: (500)", "ApiException: (404)"}

RECURSIVE SeqsUpTo(_, _)
SeqsUpTo(S, n) ==
  IF n = 0 THEN {<<>>}
  ELSE LET shorter == SeqsUpTo(S, n - 1)
       IN  shorter \cup { Append(s, x) : s \in { t \in shorter : Len(t) = n - 1 }, x \in S }

Plans == SeqsUpTo(Entries, MaxPlanLen)

\* The plans handed to validate_plan: their entries may lack every key.
ValidationPlans == SeqsUpTo(Entries \cup {PlanEntry(Absent, Absent, Absent)}, MaxPlanLen)

\* SafetyConfig: the fields the controller reads
DefaultExcluded == {"kube-system", "kube-public", "kube-node-lease"}
Configs ==
  [excluded_namespaces : {DefaultExcluded},
   max_blast_radius : BlastRadius,
   max_concurrent_experiments : 1..MaxConcurrent,
   auto_rollback : BOOLEAN]
  \cup \* an exclusion list that names the default namespace
  [excluded_namespaces : {{"default"}},
   max_blast_radius : {HIGH},
   max_concurrent_experiments : 1..MaxConcurrent,
   auto_rollback : {TRUE}]

\* ------------------------------------------------------- SafetyController
BLAST_RADIUS_ORDER ==
  [r \in BlastRadius |-> CASE r = LOW -> 0 [] r = MEDIUM -> 1 [] r = HIGH -> 2]

ValidationResult(approved, reason) == [approved |-> approved, reason |-> reason]

AllChecksPassed == <<"All safety checks passed">>

\* validate_experiment without its concurrency check
validate_experiment_unbounded(cfg, act, radius, namespace) ==
  IF namespace \in cfg.excluded_namespaces
    THEN ValidationResult(FALSE, <<"Namespace '", namespace, "' is in the exclusion list">>)
  ELSE IF BLAST_RADIUS_ORDER[radius] > BLAST_RADIUS_ORDER[cfg.max_blast_radius]
    THEN ValidationResult(FALSE, <<"Experiment blast radius '", radius,
                                   "' exceeds maximum allowed '", cfg.max_blast_radius, "'">>)
  ELSE ValidationResult(TRUE, AllChecksPassed)

\* validate_experiment without its blast-radius check
validate_experiment_any_radius(cfg, act, radius, namespace) ==
  IF namespace \in cfg.excluded_namespaces
    THEN ValidationResult(FALSE, <<"Namespace '", namespace, "' is in the exclusion list">>)
  ELSE IF Len(act) >= cfg.max_concurrent_experiments
    THEN ValidationResult(FALSE, <<"Concurrent experiment limit reached (",
                                   ToString(cfg.max_concurrent_experiments), ")">>)
  ELSE ValidationResult(TRUE, AllChecksPassed)

\* validate_experiment without its exclusion check
validate_experiment_no_exclusion(cfg, act, radius, namespace) ==
  IF BLAST_RADIUS_ORDER[radius] > BLAST_RADIUS_ORDER[cfg.max_blast_radius]
    THEN ValidationResult(FALSE, <<"Experiment blast radius '", radius,
                                   "' exceeds maximum allowed '", cfg.max_blast_radius, "'">>)
  ELSE IF Len(act) >= cfg.max_concurrent_experiments
    THEN ValidationResult(FALSE, <<"Concurrent experiment limit reached (",
                                   ToString(cfg.max_concurrent_experiments), ")">>)
  ELSE ValidationResult(TRUE, AllChecksPassed)

\* validate_experiment with the blast-radius check ahead of the exclusion check
validate_experiment_radius_first(cfg, act, radius, namespace) ==
  IF BLAST_RADIUS_ORDER[radius] > BLAST_RADIUS_ORDER[cfg.max_blast_radius]
    THEN ValidationResult(FALSE, <<"Experiment blast radius '", radius,
                                   "' exceeds maximum allowed '", cfg.max_blast_radius, "'">>)
  ELSE IF namespace \in cfg.excluded_namespaces
    THEN ValidationResult(FALSE, <<"Namespace '", namespace, "' is in the exclusion list">>)
  ELSE IF Len(act) >= cfg.max_concurrent_experiments
    THEN ValidationResult(FALSE, <<"Concurrent experiment limit reached (",
                                   ToString(cfg.max_concurrent_experiments), ")">>)
  ELSE ValidationResult(TRUE, AllChecksPassed)

\* validate_experiment that rejects a radius equal to the ceiling
validate_experiment_radius_ge(cfg, act, radius, namespace) ==
  IF namespace \in cfg.excluded_namespaces
    THEN ValidationResult(FALSE, <<"Namespace '", namespace, "' is in the exclusion list">>)
  ELSE IF BLAST_RADIUS_ORDER[radius] >= BLAST_RADIUS_ORDER[cfg.max_blast_radius]
    THEN ValidationResult(FALSE, <<"Experiment blast radius '", radius,
                                   "' exceeds maximum allowed '", cfg.max_blast_radius, "'">>)
  ELSE IF Len(act) >= cfg.max_concurrent_experiments
    THEN ValidationResult(FALSE, <<"Concurrent experiment limit reached (",
                                   ToString(cfg.max_concurrent_experiments), ")">>)
  ELSE ValidationResult(TRUE, AllChecksPassed)

\* SafetyController.validate_experiment on ledger act, for an experiment of
\* blast radius radius in namespace.
validate_experiment(cfg, act, radius, namespace) ==
  IF namespace \in cfg.excluded_namespaces
    THEN ValidationResult(FALSE, <<"Namespace '", namespace, "' is in the exclusion list">>)
  ELSE IF BLAST_RADIUS_ORDER[radius] > BLAST_RADIUS_ORDER[cfg.max_blast_radius]
    THEN ValidationResult(FALSE, <<"Experiment blast radius '", radius,
                                   "' exceeds maximum allowed '", cfg.max_blast_radius, "'">>)
  ELSE IF Len(act) >= cfg.max_concurrent_experiments
    THEN ValidationResult(FALSE, <<"Concurrent experiment limit reached (",
                                   ToString(cfg.max_concurrent_experiments), ")">>)
  ELSE ValidationResult(TRUE, AllChecksPassed)

register_active(act, experiment_name, target, namespace) ==
  Append(act, [name |-> experiment_name, target |-> target, namespace |-> namespace])

unregister_active(act, experiment_name, target) ==
  SelectSeq(act, LAMBDA e : ~(e.name = experiment_name /\ e.target = target))

\* ------------------------------------------------------- ExperimentResult
ExperimentResult(name, status, target, namespace) ==
  [experiment_name |-> name, status |-> status, target |-> target,
   namespace |-> namespace, completed_at |-> None, duration_seconds |-> "0.0",
   error |-> None, rollback_performed |-> FALSE, dry_run |-> FALSE, details |-> None]

\* ------------------------------------------------------------------ state
VARIABLES
  config,        \* SafetyController.config
  active,        \* SafetyController._active_experiments
  call,          \* call[i]: the frame of run_one invocation i
  plan,          \* run_plan's argument
  plan_dry_run,  \* run_plan's dry_run argument
  idx,           \* run_plan: position of the loop in plan
  results,       \* run_plan's results list
  plan_pc,       \* run_plan: "idle", "loop", "awaiting", "returned", "raised"
  vplan,         \* validate_plan's argument
  vresults,      \* what each validate_plan call on vplan returned
  rb,            \* a call of a variant's rollback: arguments and what it did
  reg,           \* the catalog: ExperimentRegistry._discovered, the modules
                 \* imported, and the last get call
  k8s,           \* the cluster a variant acts on: the target deployment's
                 \* replicas and the scopes whose resources were mutated
  wf             \* the driver: the command given, the AgentState of the
                 \* workflow and the node to run next

vars == <<config, active, call, plan, plan_dry_run, idx, results, plan_pc, vplan, vresults,
          rb, reg, k8s, wf>>

Runner == 0
Callers == 1..NumCallers
Invocations == {Runner} \cup Callers

\* A run_one frame: its arguments and locals, and what it has called so far.
Frame(pc, entry, dry) ==
  [pc |-> pc, entry |-> entry, dry_run |-> dry,
   validation |-> None,       \* the ValidationResult, once validate_experiment ran
   exc |-> None,              \* the failure caught at line 102
   rollback |-> "none",       \* how the awaited rollback ended
   result |-> None,           \* the record returned
   clients |-> 0,             \* calls of _k8s_client
   registers |-> 0,           \* calls of register_active
   unregisters |-> 0,         \* calls of unregister_active
   executes |-> 0,            \* calls of experiment.execute
   rollbacks |-> 0,           \* calls of experiment.rollback
   enforces |-> 0,            \* calls of enforce_rollback
   enforce |-> "none",        \* how enforce_rollback ended: "returned" or "raised"
   ledger0 |-> None,          \* <<the ledger>> when run_one was called
   ledger1 |-> None,          \* <<the ledger>> as enforce_rollback left it
   executed |-> None]         \* <<the record>> the variant's execute returned

IdleFrame == Frame("idle", PlanEntry(Absent, Absent, Absent), FALSE)

\* plan_entry.get("namespace", "default")
NamespaceOf(entry) == IF entry.namespace = Absent THEN "default" ELSE entry.namespace

\* SafetyController(config), ExperimentExecutor(registry, safety, k8s_cfg)
Constructed ==
  /\ config \in Configs
  /\ call = [i \in Invocations |-> IdleFrame]
  /\ plan = <<>>
  /\ plan_dry_run = FALSE
  /\ idx = 0
  /\ results = <<>>
  /\ plan_pc = "idle"
  /\ vplan = <<>>
  /\ vresults = <<>>
  /\ rb = [called |-> FALSE, name |-> Absent, context |-> None, calls |-> <<>>,
           raised |-> FALSE]
  /\ reg = [discovered |-> FALSE, scans |-> 0, imported |-> {}, constructions |-> 0,
            lookup |-> None]
  /\ k8s = [phase |-> "idle", entry |-> PlanEntry(Absent, Absent, Absent),
            original |-> None, replicas |-> None, scaled_down |-> FALSE,
            execute |-> "none", rollback |-> "none", scopes |-> {}]
  /\ wf = [cmd |-> "none", node |-> "idle", flag |-> FALSE, safety_dry_run |-> FALSE,
           dry_run |-> FALSE, entry |-> PlanEntry(Absent, Absent, Absent),
           planned |-> <<>>, experiment_plan |-> <<>>, safety_violations |-> <<>>]

\* What register_active appended for an entry of an approved campaign
Registration(entry) ==
  [name |-> entry.experiment, target |-> entry.target, namespace |-> NamespaceOf(entry)]

\* The entries a controller configured cfg approves on an empty ledger
Approvable(cfg) ==
  { e \in Entries : /\ get(e.experiment) # None
                    /\ validate_experiment(cfg, <<>>, blast_radius(get(e.experiment)),
                                           NamespaceOf(e)).approved }

\* run_plan starts on a ledger holding the registrations of at most
\* MaxInFlight other campaigns, which stay in flight while it runs.
Init ==
  /\ Constructed
  /\ active \in SeqsUpTo({ Registration(e) : e \in Approvable(config) }, MaxInFlight)
  /\ Len(active) <= config.max_concurrent_experiments

\* The campaigns start on an empty ledger.
InitConc ==
  /\ Constructed
  /\ active = <<>>

\* ------------------------------------------------------ ExperimentExecutor
\* the unknown-name record with the status of a rejection
UnknownRecord_skipped(entry) ==
  [ExperimentResult(entry.experiment, SKIPPED, entry.target, NamespaceOf(entry))
     EXCEPT !.error = <<"Unknown experiment type: ", entry.experiment>>]

\* run_one, lines 59-66: the record for a name the registry does not know
UnknownRecord(entry) ==
  [ExperimentResult(entry.experiment, FAILED, entry.target, NamespaceOf(entry))
     EXCEPT !.error = <<"Unknown experiment type: ", entry.experiment>>]

\* the rejection record without the controller's reason
RejectedRecord_no_reason(entry, validation) ==
  [ExperimentResult(entry.experiment, SKIPPED, entry.target, NamespaceOf(entry))
     EXCEPT !.error = <<"Safety check failed">>]

\* run_one, lines 72-80: the record for an entry the controller rejected
RejectedRecord(entry, validation) ==
  [ExperimentResult(entry.experiment, SKIPPED, entry.target, NamespaceOf(entry))
     EXCEPT !.error = <<"Safety check failed: ">> \o validation.reason]

\* run_one, lines 82-91: the record of a dry run
DryRunRecord(entry) ==
  [ExperimentResult(entry.experiment, COMPLETED, entry.target, NamespaceOf(entry))
     EXCEPT !.dry_run = TRUE, !.details = <<"params", "message">>]

\* The record a variant's execute returns for target and namespace: COMPLETED
\* with the variant's details, or configmap-mutation's SKIPPED with its error.
VariantRecord(name, status, target, namespace) ==
  [ExperimentResult(name, status, target, namespace)
     EXCEPT !.error = IF status = SKIPPED THEN <<"ConfigMap has no data keys to mutate">> ELSE None,
            !.details = IF status = SKIPPED THEN None ELSE <<"variant">>]

\* run_one that reports every execute that returned as completed
SuccessRecord_completed(result) ==
  [result EXCEPT !.duration_seconds = "elapsed", !.completed_at = <<"now">>,
                 !.status = COMPLETED, !.error = None]

\* run_one, lines 98-101: the variant's record with the timing fields set
SuccessRecord(result) ==
  [result EXCEPT !.duration_seconds = "elapsed", !.completed_at = <<"now">>]

\* the FAILED record with a generic error text
FailedRecord_generic_error(entry, exc, rolled_back) ==
  [ExperimentResult(entry.experiment, FAILED, entry.target, NamespaceOf(entry))
     EXCEPT !.duration_seconds = "elapsed", !.completed_at = <<"now">>,
            !.error = <<"Experiment failed">>, !.rollback_performed = rolled_back]

\* the record of an execute that raised, marked rolled back when it was
FailedRecord_rolled_back_status(entry, exc, rolled_back) ==
  [ExperimentResult(entry.experiment, IF rolled_back THEN ROLLED_BACK ELSE FAILED,
                    entry.target, NamespaceOf(entry))
     EXCEPT !.duration_seconds = "elapsed", !.completed_at = <<"now">>,
            !.error = exc, !.rollback_performed = rolled_back]

\* run_one, lines 112-121: the record of an execute that raised exc
FailedRecord(entry, exc, rolled_back) ==
  [ExperimentResult(entry.experiment, FAILED, entry.target, NamespaceOf(entry))
     EXCEPT !.duration_seconds = "elapsed", !.completed_at = <<"now">>,
            !.error = exc, !.rollback_performed = rolled_back]

\* run_plan that never breaks
StopsPlan_never(result, dry_run) == FALSE

\* run_plan that breaks on a FAILED result in dry-run mode too
StopsPlan_dry_too(result, dry_run) == result.status = FAILED

\* run_plan, line 135: the loop breaks after this result
StopsPlan(result, dry_run) == result.status = FAILED /\ ~dry_run

\* run_one without the test of the validation result (line 72)
run_one_path_no_gate(known, approved, dry_run) ==
  IF ~known THEN "unknown"
  ELSE IF dry_run THEN "dry_run"
  ELSE "execute"

\* run_one without the dry_run test of line 82
run_one_path_no_dry(known, approved, dry_run) ==
  IF ~known THEN "unknown"
  ELSE IF ~approved THEN "rejected"
  ELSE "execute"

\* run_one with the dry_run test ahead of the rejection test
run_one_path_dry_first(known, approved, dry_run) ==
  IF ~known THEN "unknown"
  ELSE IF dry_run THEN "dry_run"
  ELSE IF ~approved THEN "rejected"
  ELSE "execute"

\* run_one, lines 59, 72, 82: the branch taken for a name the registry knows
\* or not, a validation that approved or not, and the dry_run argument
run_one_path(known, approved, dry_run) ==
  IF ~known THEN "unknown"
  ELSE IF ~approved THEN "rejected"
  ELSE IF dry_run THEN "dry_run"
  ELSE "execute"

\* enforce_rollback that absorbs nothing
enforce_rollback_raises_on_failure(ending) == ending # "returned"

\* enforce_rollback, lines 106-123: whether a rollback that ended this way
\* ("returned", "raised", "timeout") leaves enforce_rollback as an exception;
\* both except clauses absorb it
enforce_rollback_raises(ending) == FALSE

\* how enforce_rollback ended for its caller
EnforceEnding(raised) == IF raised THEN "raised" ELSE "returned"

\* enforce_rollback that releases the slot with auto_rollback off too
enforce_rollback_disabled_releases(act, experiment_name, target) ==
  unregister_active(act, experiment_name, target)

\* enforce_rollback, lines 102-104, on ledger act: with auto_rollback off it
\* returns ahead of the try statement, so its finally clause does not run
enforce_rollback_disabled(act, experiment_name, target) == act

\* enforce_rollback whose finally clause releases nothing
enforce_rollback_release_nothing(act, experiment_name, target) == act

\* enforce_rollback, lines 122-123: the finally clause, on ledger act
enforce_rollback_release(act, experiment_name, target) ==
  unregister_active(act, experiment_name, target)

\* run_one, lines 106-111: rolled_back after enforce_rollback was awaited
rolled_back(enforce_raised) == ~enforce_raised

\* run_plan that does not wait for a suspended run_one (it schedules run_one
\* and goes on with the loop)
Resume_no_await(i, f) ==
  /\ call' = [call EXCEPT ![i] = f]
  /\ UNCHANGED <<config, plan, plan_dry_run, vplan, vresults, rb, reg, k8s, wf>>
  /\ IF i # Runner THEN UNCHANGED <<results, plan_pc>>
     ELSE IF f.pc = "returned"
       THEN /\ results' = Append(results, f.result[1])
            /\ plan_pc' = IF StopsPlan(f.result[1], plan_dry_run) \/ idx' = Len(plan)
                            THEN "returned" ELSE "loop"
     ELSE /\ results' = results
          /\ plan_pc' = IF f.pc = "raised" THEN "raised"
                        ELSE IF idx' = Len(plan) THEN "awaiting" ELSE "loop"

\* The frame of invocation i becomes f; when i is run_plan's run_one, run_plan
\* goes on without suspension: it waits while run_one is suspended, is left by
\* what run_one raises, and appends what run_one returns (lines 133-138).
Resume(i, f) ==
  /\ call' = [call EXCEPT ![i] = f]
  /\ UNCHANGED <<config, plan, plan_dry_run, vplan, vresults, rb, reg, k8s, wf>>
  /\ IF i # Runner THEN UNCHANGED <<results, plan_pc>>
     ELSE IF f.pc = "returned"
       THEN /\ results' = Append(results, f.result[1])
            /\ plan_pc' = IF StopsPlan(f.result[1], plan_dry_run) \/ idx' = Len(plan)
                            THEN "returned" ELSE "loop"
     ELSE /\ results' = results
          /\ plan_pc' = IF f.pc = "raised" THEN "raised" ELSE "awaiting"

\* run_one from its call to its first suspension (lines 53-98): it returns
\* at once for an unknown name, a rejection or a dry run, raises what
\* _k8s_client raises, and otherwise registers and awaits execute.
run_one(i, entry, dry_run) ==
  LET f0 == [Frame("running", entry, dry_run) EXCEPT !.ledger0 = <<active>>]
      exp_cls == get(entry.experiment)
      known == exp_cls # None
      validation == validate_experiment(config, active, blast_radius(exp_cls), NamespaceOf(entry))
      f1 == [f0 EXCEPT !.validation = <<validation>>]
      path == run_one_path(known, known /\ validation.approved, dry_run)
  IN
  CASE path = "unknown" ->
         /\ active' = active
         /\ Resume(i, [f0 EXCEPT !.pc = "returned", !.result = <<UnknownRecord(entry)>>])
    [] path = "rejected" ->
         /\ active' = active
         /\ Resume(i, [f1 EXCEPT !.pc = "returned",
                                 !.result = <<RejectedRecord(entry, validation)>>])
    [] path = "dry_run" ->
         /\ active' = active
         /\ Resume(i, [f1 EXCEPT !.pc = "returned", !.result = <<DryRunRecord(entry)>>])
    [] path = "execute" ->
         \/ \* _k8s_client raises (lines 37-45, 94)
            /\ active' = active
            /\ Resume(i, [f1 EXCEPT !.pc = "raised", !.clients = 1,
                                    !.exc = <<"ConfigException">>])
         \/ \* lines 94-98
            /\ active' = register_active(active, entry.experiment, entry.target,
                                         NamespaceOf(entry))
            /\ Resume(i, [f1 EXCEPT !.pc = "execute", !.clients = 1, !.registers = 1,
                                    !.executes = 1])

\* A caller invokes run_one directly (cli.execute does).
RunOne(i) ==
  /\ i \in Callers
  /\ call[i].pc = "idle"
  /\ idx' = idx
  /\ \E entry \in ConcEntries, dry_run \in BOOLEAN :
       run_one(i, entry, dry_run)

\* run_plan(p, dry_run) from its call to the loop (lines 125-132); an empty
\* plan returns [] at once.
run_plan_call(p, dry_run) ==
  /\ plan' = p
  /\ plan_dry_run' = dry_run
  /\ plan_pc' = IF p = <<>> THEN "returned" ELSE "loop"
  /\ idx' = 0
  /\ results' = <<>>
  /\ call' = [call EXCEPT ![Runner] = IdleFrame]
  /\ UNCHANGED <<config, active, vplan, vresults, rb, reg, k8s>>

\* run_plan is called on some plan.
run_plan ==
  /\ plan_pc = "idle"
  /\ \E p \in Plans, dry_run \in BOOLEAN : run_plan_call(p, dry_run)
  /\ UNCHANGED wf

\* run_plan, lines 132-133: the loop takes the next entry and calls run_one.
run_plan_next ==
  /\ plan_pc = "loop"
  /\ idx' = idx + 1
  /\ run_one(Runner, plan[idx + 1], plan_dry_run)

\* The awaited execute returns a record (run_one, lines 98-101, 123).
execute_returns(i) ==
  /\ call[i].pc = "execute"
  /\ idx' = idx
  /\ \E status \in ExecuteStatuses(call[i].entry.experiment) :
       LET f == call[i]
           result == VariantRecord(f.entry.experiment, status, f.entry.target,
                                   NamespaceOf(f.entry))
       IN
       /\ active' = unregister_active(active, f.entry.experiment, f.entry.target)
       /\ Resume(i, [f EXCEPT !.pc = "returned",
                              !.executed = <<result>>,
                              !.result = <<SuccessRecord(result)>>,
                              !.unregisters = @ + 1])

\* The awaited execute raises (run_one, lines 102-107): enforce_rollback is
\* called; with auto_rollback off it returns at once (controls.py 102-104) and
\* run_one returns the FAILED record (lines 108-123), otherwise the variant's
\* rollback is awaited under the timeout.
execute_raises(i) ==
  /\ call[i].pc = "execute"
  /\ idx' = idx
  /\ \E msg \in ExecErrors :
       LET f == [call[i] EXCEPT !.exc = <<msg>>, !.enforces = @ + 1]
           after_enforce == enforce_rollback_disabled(active, f.entry.experiment,
                                                      f.entry.target)
       IN
       IF ~config.auto_rollback
         THEN /\ active' = unregister_active(after_enforce, f.entry.experiment,
                                             f.entry.target)
              /\ Resume(i, [f EXCEPT !.pc = "returned",
                                     !.result = <<FailedRecord(f.entry, f.exc,
                                                               rolled_back(FALSE))>>,
                                     !.enforce = EnforceEnding(FALSE),
                                     !.ledger1 = <<after_enforce>>,
                                     !.unregisters = @ + 1])
         ELSE /\ active' = active
              /\ Resume(i, [f EXCEPT !.pc = "rollback", !.rollbacks = @ + 1])

\* The awaited rollback returns, raises, or is cancelled by the timeout
\* (controls.py 106-123: logged, then the finally clause unregisters), and
\* run_one returns the FAILED record (executor.py 108-123: its own finally
\* clause unregisters again).
rollback_ended(i, ending) ==
  LET f == call[i]
      enforce_raised == enforce_rollback_raises(ending)
      after_enforce == enforce_rollback_release(active, f.entry.experiment,
                                                f.entry.target)
  IN
  /\ active' = unregister_active(after_enforce, f.entry.experiment, f.entry.target)
  /\ Resume(i, [f EXCEPT !.pc = "returned", !.rollback = ending,
                         !.enforce = EnforceEnding(enforce_raised),
                         !.ledger1 = <<after_enforce>>,
                         !.result = <<FailedRecord(f.entry, f.exc,
                                                   rolled_back(enforce_raised))>>,
                         !.unregisters = @ + 2])

\* The rollback awaited under wait_for is suspended at an await of its own: it
\* returns, raises, or the timer expires and cancels it.
rollback_ends(i) ==
  /\ call[i].pc = "rollback"
  /\ idx' = idx
  /\ \E ending \in {"returned", "raised", "timeout"} :
       rollback_ended(i, ending)

\* The rollback coroutine runs into a synchronous API call (NodeDrain.rollback:
\* core.patch_node, with no await in the body): the event loop is inside that
\* call, so neither the timer of wait_for nor any other coroutine runs.
rollback_blocks(i) ==
  /\ call[i].pc = "rollback"
  /\ idx' = idx
  /\ active' = active
  /\ Resume(i, [call[i] EXCEPT !.pc = "blocked"])

\* The synchronous API call of the rollback returns or raises.
blocking_rollback_ends(i) ==
  /\ call[i].pc = "blocked"
  /\ idx' = idx
  /\ \E ending \in {"returned", "raised"} :
       rollback_ended(i, ending)

\* entry.get("experiment", ""), the name validate_plan looks up
LookupName(entry) == IF entry.experiment = Absent THEN "" ELSE entry.experiment

\* entry.get('experiment') as the f-string of line 133 prints it
PrintedName(entry) == IF entry.experiment = Absent THEN "None" ELSE entry.experiment

\* validate_plan whose unknown entries get no result (continue without append)
validate_plan_drops_unknown(cfg, act, p) ==
  LET known == SelectSeq(p, LAMBDA entry : get(LookupName(entry)) # None)
  IN  [k \in 1..Len(known) |->
         validate_experiment(cfg, act, blast_radius(get(LookupName(known[k]))),
                             NamespaceOf(known[k]))]

\* SafetyController.validate_plan (lines 125-147) on ledger act: the results list
validate_plan(cfg, act, p) ==
  [k \in 1..Len(p) |->
     LET entry == p[k]
         exp_cls == get(LookupName(entry))
     IN  IF exp_cls = None
           THEN ValidationResult(FALSE, <<"Unknown experiment type: ", PrintedName(entry)>>)
           ELSE validate_experiment(cfg, act, blast_radius(exp_cls), NamespaceOf(entry))]

\* a validate_plan that registers the entries it approves
ValidatePlan_registering ==
  \E p \in ValidationPlans :
    LET r == validate_plan(config, active, p)
        again == vresults # <<>>
        approved == SelectSeq(p, LAMBDA entry :
                      /\ get(LookupName(entry)) # None
                      /\ validate_experiment(config, active,
                                             blast_radius(get(LookupName(entry))),
                                             NamespaceOf(entry)).approved)
    IN  /\ again => p = vplan /\ Len(vresults) < MaxValidations
        /\ vplan' = p
        /\ vresults' = IF again THEN Append(vresults, r) ELSE <<r>>
        /\ active' = active \o [k \in 1..Len(approved) |-> Registration(approved[k])]
        /\ UNCHANGED <<config, call, plan, plan_dry_run, idx, results, plan_pc, rb, reg, k8s, wf>>

\* validate_plan is called (graph.validate_node does), and called again on the
\* same entries; it assigns to nothing of the controller.
ValidatePlan ==
  \E p \in ValidationPlans :
    LET r == validate_plan(config, active, p)
        again == vresults # <<>>
    IN  /\ again => p = vplan /\ Len(vresults) < MaxValidations
        /\ vplan' = p
        /\ vresults' = IF again THEN Append(vresults, r) ELSE <<r>>
        /\ UNCHANGED <<config, active, call, plan, plan_dry_run, idx, results, plan_pc,
                       rb, reg, k8s, wf>>

\* ------------------------------------------------------ variants' rollback
\* The variants whose rollback reads a field of the context execute captured,
\* and that field.
ContextField(name) ==
  CASE name = "pod-restart" -> "original_replicas"
    [] name = "network-latency" -> "interface"
    [] name = "packet-loss" -> "interface"
    [] name = "configmap-mutation" -> "original_data"
    [] name = "secret-deletion" -> "backup"
    [] name = "dns-failure" -> "original_corefile"

ContextVariants ==
  {"pod-restart", "network-latency", "packet-loss", "configmap-mutation",
   "secret-deletion", "dns-failure"}

Falsy == ""              \* a value Python takes for false: 0, "", {}, None
Captured == "captured"   \* the value execute captured

\* A context is None or <<d>>, d a dict: a set of <<key, value>> pairs.
\* The contexts handed to the rollback of variant name: none, an empty dict, a
\* dict without the field, the field with a false value, the captured field.
RollbackContexts(name) ==
  { None, <<{}>>, <<{<<"unrelated", Captured>>}>>,
    <<{<<ContextField(name), Falsy>>}>>, <<{<<ContextField(name), Captured>>}>> }

\* (context or {}).get(key, default)
context_get(context, key, default) ==
  LET d == IF context = None THEN {} ELSE context[1]
  IN  IF \E kv \in d : kv[1] = key
        THEN (CHOOSE kv \in d : kv[1] = key)[2]
        ELSE default

\* The resource-API calls the body of rollback makes, in order, when none of
\* them raises.
RollbackCalls(name, context) ==
  CASE name = "pod-restart" ->      \* pod.py 85-90
         << <<"patch_namespaced_deployment_scale",
              context_get(context, "original_replicas", 1)>> >>
    [] name \in {"network-latency", "packet-loss"} ->     \* network.py 60-71, 115-126
         << <<"read_namespaced_pod", "">>,
            <<"connect_get_namespaced_pod_exec: tc qdisc del dev",
              context_get(context, "interface", "eth0")>> >>
    [] name = "configmap-mutation" ->     \* config_chaos.py 65-74
         IF context_get(context, "original_data", Falsy) = Falsy
           THEN <<>>
           ELSE << <<"read_namespaced_config_map", "">>,
                   <<"patch_namespaced_config_map",
                     context_get(context, "original_data", Falsy)>> >>
    [] name = "secret-deletion" ->        \* config_chaos.py 116-134
         IF context_get(context, "backup", Falsy) = Falsy
           THEN <<>>
           ELSE << <<"create_namespaced_secret", context_get(context, "backup", Falsy)>> >>
    [] name = "dns-failure" ->            \* network.py 214-223
         IF context_get(context, "original_corefile", Falsy) = Falsy
           THEN <<>>
           ELSE << <<"read_namespaced_config_map", "">>,
                   <<"patch_namespaced_config_map",
                     context_get(context, "original_corefile", Falsy)>> >>

\* A variant's rollback(target, namespace, k8s_client, context) whose API call
\* number fails raises (0: none does): the calls made, and whether it raised.
\* None of these bodies catches what a call raises.
rollback(name, context, fails) ==
  LET body == RollbackCalls(name, context)
      raises == fails \in 1..Len(body)
  IN  [called |-> TRUE, name |-> name, context |-> context,
       calls |-> IF raises THEN SubSeq(body, 1, fails) ELSE body,
       raised |-> raises]

\* A variant's rollback is called with a context.
Rollback ==
  /\ ~rb.called
  /\ \E name \in ContextVariants :
       \E context \in RollbackContexts(name), fails \in 0..2 :
         rb' = rollback(name, context, fails)
  /\ UNCHANGED <<config, active, call, plan, plan_dry_run, idx, results, plan_pc,
                 vplan, vresults, reg, k8s, wf>>

\* ------------------------------------------------- variants on a cluster
\* spec.replicas of a deployment: None when unset, else <<n>>
Replicas == {None} \cup { <<n>> : n \in 0..MaxReplicas }

\* the replicas the deployment controller runs: an unset count is 1
EffectiveReplicas(r) == IF r = None THEN 1 ELSE r[1]

\* PodRestart.execute, line 63: dep.spec.replicas or 1
original_replicas(r) == IF r = None \/ r = <<0>> THEN 1 ELSE r[1]

\* PodRestart.execute (pod.py 59-83) on a deployment of replicas r, whose API
\* call number fails raises (0: none; 1: the read; 2: the scale-down; 3: the
\* scale back up)
PodRestart_execute(r, fails) ==
  [raised |-> fails \in 1..3,
   scaled_down |-> fails \notin {1, 2},
   replicas |-> CASE fails \in {1, 2} -> r
                  [] fails = 3 -> <<0>>
                  [] OTHER -> <<original_replicas(r)>>]

\* the namespaces of a cluster, and the scope of resources in no namespace
ClusterNamespaces == {"default", "kube-system"}
ClusterScope == "<cluster>"

\* The scopes whose resources a variant's execute mutates for an entry in
\* namespace: the entry's namespace, except that dns-failure patches the
\* coredns ConfigMap of kube-system (network.py 195-204), node-cordon patches
\* the node, and node-drain patches the node and evicts the pods on it, in the
\* namespaces they are in (node.py 32-55).
MutatedScopes(name, namespace, pods_on_node) ==
  CASE name = "dns-failure" -> {"kube-system"}
    [] name = "node-cordon" -> {ClusterScope}
    [] name = "node-drain" -> {ClusterScope} \cup pods_on_node
    [] OTHER -> {namespace}

\* enforce_rollback's context parameter: run_one passes none (executor.py
\* 107), so it is the default of controls.py line 99
enforce_rollback_context == None

\* the entries run against the cluster: every variant, in each namespace
ClusterEntries ==
  { PlanEntry(name, "web", ns) : name \in list_names, ns \in ClusterNamespaces }

\* run_one(entry) in a real run, for the variants of the repository, whose
\* execute and rollback contain no await: the call runs from validation to
\* its return without suspension.  The deployment has replicas r; execute's
\* API call number fails raises; the rollback's patch raises or not.
run_one_on_cluster(entry, r, fails, rollback_raises, pods_on_node) ==
  LET name == entry.experiment
      exp_cls == get(name)
      validation == validate_experiment(config, active, blast_radius(exp_cls),
                                        NamespaceOf(entry))
      ex == IF name = "pod-restart"
              THEN PodRestart_execute(r, fails)
              ELSE [raised |-> fails \in 1..3, scaled_down |-> FALSE, replicas |-> r]
      mutated == IF name = "pod-restart"
                   THEN IF fails \in {1, 2} THEN {} ELSE {NamespaceOf(entry)}
                   ELSE IF fails = 1 THEN {}
                   ELSE MutatedScopes(name, NamespaceOf(entry), pods_on_node)
      rolls_back == ex.raised /\ config.auto_rollback
      body == IF name \in ContextVariants
                THEN RollbackCalls(name, enforce_rollback_context)
                ELSE <<>>
      patched == rolls_back /\ name = "pod-restart" /\ ~rollback_raises
  IN
  /\ run_one_path(exp_cls # None, exp_cls # None /\ validation.approved, FALSE) = "execute"
  /\ k8s' = [phase |-> "returned", entry |-> entry, original |-> r,
             replicas |-> IF patched THEN <<body[1][2]>> ELSE ex.replicas,
             scaled_down |-> ex.scaled_down,
             execute |-> IF ex.raised THEN "raised" ELSE "returned",
             rollback |-> IF ~rolls_back THEN "none"
                          ELSE IF rollback_raises THEN "raised" ELSE "returned",
             scopes |-> mutated \cup (IF patched THEN {NamespaceOf(entry)} ELSE {})]

\* run_one is called on an entry, against a cluster in some state.
RunOnCluster ==
  /\ k8s.phase = "idle"
  /\ \E entry \in ClusterEntries, r \in Replicas, fails \in 0..3,
        rollback_raises \in BOOLEAN, pods_on_node \in SUBSET ClusterNamespaces :
       run_one_on_cluster(entry, r, fails, rollback_raises, pods_on_node)
  /\ UNCHANGED <<config, active, call, plan, plan_dry_run, idx, results, plan_pc,
                 vplan, vresults, rb, reg, wf>>

\* ------------------------------------------------- command line and graph
\* cli.execute, line 107: dry_run or cfg.safety.dry_run, with the flag only
cli_execute_dry_run_flag_only(flag, safety_dry_run) == flag

\* cli.execute, line 107: dry_run=dry_run or cfg.safety.dry_run
cli_execute_dry_run(flag, safety_dry_run) == flag \/ safety_dry_run

\* cli.run, lines 121-124: the flag sets cfg.safety.dry_run, and the graph's
\* state starts with {"dry_run": cfg.safety.dry_run}
cli_run_dry_run(flag, safety_dry_run) == IF flag THEN TRUE ELSE safety_dry_run

\* entry.get('target') as the f-string of validate_node prints it
PrintedTarget(entry) == IF entry.target = Absent THEN "None" ELSE entry.target

\* zip(plan, results): the positions both lists have
ZipLen(p, r) == IF Len(p) <= Len(r) THEN Len(p) ELSE Len(r)

\* a validate_node that keeps every planned entry
approved_plan_keeps_all(p, r) == p

\* validate_node, lines 62-65: the entries whose result is approved, in
\* their order
approved_plan(p, r) ==
  LET ks == SelectSeq([k \in 1..ZipLen(p, r) |-> k], LAMBDA k : r[k].approved)
  IN  [j \in 1..Len(ks) |-> p[ks[j]]]

\* validate_node, lines 66-69: one message for each entry not approved
violations(p, r) ==
  LET ks == SelectSeq([k \in 1..ZipLen(p, r) |-> k], LAMBDA k : ~r[k].approved)
  IN  [j \in 1..Len(ks) |->
         <<PrintedName(p[ks[j]]), " on ", PrintedTarget(p[ks[j]]), ": ", r[ks[j]].reason>>]

\* should_replan (lines 79-84)
should_replan(state) ==
  IF state.experiment_plan = <<>> /\ state.safety_violations # <<>>
    THEN "plan" ELSE "execute"

\* what a step of the driver leaves alone
DriverOnly ==
  UNCHANGED <<config, active, call, plan, plan_dry_run, idx, results, plan_pc,
              vplan, vresults, rb, reg, k8s>>

\* `chaos-monkey execute EXPERIMENT TARGET` (cli.py 88-106): the options are
\* parsed and the configuration loaded.
cli_execute ==
  /\ wf.cmd = "none"
  /\ \E entry \in Entries, flag \in BOOLEAN, safety_dry_run \in BOOLEAN :
       wf' = [wf EXCEPT !.cmd = "execute", !.node = "run_one", !.entry = entry,
                        !.flag = flag, !.safety_dry_run = safety_dry_run]
  /\ DriverOnly

\* cli.execute, line 107: asyncio.run(executor.run_one(entry, dry_run=...))
cli_execute_run_one ==
  /\ wf.cmd = "execute"
  /\ call[1].pc = "idle"
  /\ idx' = idx
  /\ run_one(1, wf.entry, cli_execute_dry_run(wf.flag, wf.safety_dry_run))

\* `chaos-monkey run` (cli.py 112-124): build_graph and graph.ainvoke, which
\* enters the graph at discover (graph.py 142).
cli_run ==
  /\ wf.cmd = "none"
  /\ \E flag \in BOOLEAN, safety_dry_run \in BOOLEAN :
       wf' = [wf EXCEPT !.cmd = "run", !.node = "discover",
                        !.flag = flag, !.safety_dry_run = safety_dry_run,
                        !.dry_run = cli_run_dry_run(flag, safety_dry_run)]
  /\ DriverOnly

\* discover_node (graph.py 37-41) and the edge to analyze
discover_node ==
  /\ wf.node = "discover"
  /\ wf' = [wf EXCEPT !.node = "analyze"]
  /\ DriverOnly

\* analyze_node (graph.py 43-47) and the edge to plan
analyze_node ==
  /\ wf.node = "analyze"
  /\ wf' = [wf EXCEPT !.node = "plan"]
  /\ DriverOnly

\* plan_node (graph.py 49-54): the planner answers with some plan, from the
\* topology and the weaknesses alone; the edge to validate
plan_node ==
  /\ wf.node = "plan"
  /\ \E p \in Plans :
       wf' = [wf EXCEPT !.node = "validate", !.planned = p, !.experiment_plan = p]
  /\ DriverOnly

\* validate_node (graph.py 56-77), followed by the conditional edge
validate_node ==
  /\ wf.node = "validate"
  /\ LET p == wf.experiment_plan
         r == validate_plan(config, active, p)
         state == [wf EXCEPT !.experiment_plan = approved_plan(p, r),
                             !.safety_violations = violations(p, r)]
     IN  wf' = [state EXCEPT !.node = should_replan(state)]
  /\ DriverOnly

\* execute_node (graph.py 86-89) calls run_plan on the state's plan and waits
\* for it.
execute_node ==
  /\ wf.node = "execute"
  /\ plan_pc = "idle"
  /\ run_plan_call(wf.experiment_plan, wf.dry_run)
  /\ wf' = [wf EXCEPT !.node = "execute:await"]

\* execute_node (graph.py 89-93): run_plan returns and the edge to observe is
\* taken, or run_plan raises and the exception leaves ainvoke.
execute_node_ends ==
  /\ wf.node = "execute:await"
  /\ plan_pc \in {"returned", "raised"}
  /\ wf' = [wf EXCEPT !.node = IF plan_pc = "raised" THEN "raised" ELSE "observe"]
  /\ DriverOnly

\* observe_node (graph.py 96-109); has_more_experiments always answers report
observe_node ==
  /\ wf.node = "observe"
  /\ wf' = [wf EXCEPT !.node = "report"]
  /\ DriverOnly

\* report_node (graph.py 117-128) and the edge to END
report_node ==
  /\ wf.node = "report"
  /\ wf' = [wf EXCEPT !.node = "END"]
  /\ DriverOnly

\* ------------------------------------------------------ ExperimentRegistry
\* The modules of the experiments package that _ensure_discovered imports.
ExperimentModules == {"pod", "node", "network", "io", "application", "config_chaos"}

\* the module that defines the variant named name
ModuleOf(name) ==
  CASE name \in {"pod-kill", "pod-restart", "cpu-stress", "memory-stress"} -> "pod"
    [] name \in {"node-drain", "node-cordon"} -> "node"
    [] name \in {"network-latency", "packet-loss", "network-partition", "dns-failure"}
         -> "network"
    [] name \in {"disk-stress", "disk-fill"} -> "io"
    [] name = "http-error-injection" -> "application"
    [] name \in {"configmap-mutation", "secret-deletion"} -> "config_chaos"

\* _all_subclasses: the concrete subclasses of ChaosExperiment, which are the
\* classes of the modules imported (none of the variants is abstract)
all_subclasses(imported) == { v \in Variants : ModuleOf(v[1]) \in imported }

\* the names get is called with: names variants declare, a name none
\* declares, the empty name, a name in another case
LookupNames ==
  {"pod-kill", "node-drain", "secret-deletion", "no-such-experiment", "", "Pod-Kill"}

\* str.lower on the names of LookupNames
Lower(name) == IF name = "Pod-Kill" THEN "pod-kill" ELSE name

\* a get that compares names without regard to case
get_ignoring_case(imported, name) ==
  IF \E v \in all_subclasses(imported) : v[1] = Lower(name)
    THEN CHOOSE v \in all_subclasses(imported) : v[1] = Lower(name)
    ELSE None

\* ExperimentRegistry.get (lines 54-59) when the modules imported are imported
get_in(imported, name) ==
  IF \E v \in all_subclasses(imported) : v[1] = name
    THEN CHOOSE v \in all_subclasses(imported) : v[1] = name
    ELSE None

\* ExperimentRegistry.list_names (lines 65-66)
list_names_in(imported) == { v[1] : v \in all_subclasses(imported) }

\* an _ensure_discovered that scans on every construction
ShouldScan_always(discovered) == TRUE

\* _ensure_discovered, lines 30-31: the scan runs unless the class attribute
\* _discovered is set
ShouldScan(discovered) == ~discovered

\* ExperimentRegistry() is constructed (lines 24-41): the first construction
\* imports the modules of the package; an import that raises is logged and
\* its module defines no variant; _discovered is set whatever the imports did.
NewRegistry ==
  /\ reg.constructions < MaxConstructions
  /\ IF ShouldScan(reg.discovered)
       THEN \E succeeded \in SUBSET ExperimentModules :
              reg' = [reg EXCEPT !.discovered = TRUE,
                                 !.scans = @ + 1,
                                 !.imported = @ \cup succeeded,
                                 !.constructions = @ + 1]
       ELSE reg' = [reg EXCEPT !.constructions = @ + 1]
  /\ UNCHANGED <<config, active, call, plan, plan_dry_run, idx, results, plan_pc,
                 vplan, vresults, rb, k8s, wf>>

\* get(name) is called on a registry constructed before.
RegistryGet ==
  /\ reg.constructions > 0
  /\ \E name \in LookupNames :
       reg' = [reg EXCEPT !.lookup = <<[name |-> name,
                                        result |-> get_in(reg.imported, name)]>>]
  /\ UNCHANGED <<config, active, call, plan, plan_dry_run, idx, results, plan_pc,
                 vplan, vresults, rb, k8s, wf>>

Next ==
  \/ run_plan
  \/ run_plan_next
  \/ execute_returns(Runner)
  \/ execute_raises(Runner)
  \/ rollback_ends(Runner)

Spec == Init /\ [][Next]_vars

NextConc ==
  \/ \E i \in Callers : RunOne(i)
  \/ \E i \in Callers : execute_returns(i)
  \/ \E i \in Callers : execute_raises(i)
  \/ \E i \in Callers : rollback_ends(i)

SpecConc == InitConc /\ [][NextConc]_vars

\* The sequential run with rollbacks that block the event loop.  The event loop
\* runs what is ready: the loop of run_plan goes on, and a rollback suspended
\* under wait_for ends, at the latest when the timer expires.  Nothing makes a
\* synchronous call return.
NextLive ==
  \/ Next
  \/ rollback_blocks(Runner)
  \/ blocking_rollback_ends(Runner)

SpecLive ==
  /\ Init
  /\ [][NextLive]_vars
  /\ WF_vars(run_plan_next)
  /\ WF_vars(rollback_ends(Runner))

NextValidate == ValidatePlan

NextRollback == Rollback

SpecRollback == Init /\ [][NextRollback]_vars

NextCluster == RunOnCluster

SpecCluster == InitConc /\ [][NextCluster]_vars

\* The process runs one command.  The execute command drives run_one as
\* invocation 1; the run command drives the graph, whose execute node drives
\* run_plan.
NextGraph ==
  \/ cli_execute
  \/ cli_execute_run_one
  \/ execute_returns(1)
  \/ execute_raises(1)
  \/ rollback_ends(1)
  \/ cli_run
  \/ discover_node
  \/ analyze_node
  \/ plan_node
  \/ validate_node
  \/ execute_node
  \/ run_plan_next
  \/ execute_returns(Runner)
  \/ execute_raises(Runner)
  \/ rollback_ends(Runner)
  \/ execute_node_ends
  \/ observe_node
  \/ report_node

SpecGraph == InitConc /\ [][NextGraph]_vars

\* The event loop runs what is ready: a command given is started, and a node
\* or a coroutine that can go on does.
SpecGraphLive == InitConc /\ [][NextGraph]_vars /\ WF_vars(NextGraph)

NextRegistry ==
  \/ NewRegistry
  \/ RegistryGet

SpecRegistry == InitConc /\ [][NextRegistry]_vars

SpecValidate == Init /\ [][NextValidate]_vars

\* ------------------------------------------------------------------ claims
\* the record rec is the record of plan entry e
RecordOf(rec, e) ==
  /\ rec.experiment_name = e.experiment
  /\ rec.target = e.target
  /\ rec.namespace = NamespaceOf(e)

\* results holds one record per entry of a prefix of the plan, in plan order
PrefixOfPlan ==
  /\ Len(results) <= Len(plan)
  /\ \A k \in 1..Len(results) : RecordOf(results[k], plan[k])

\* this step ran code of invocation i
Ran(i) == call'[i] # call[i] /\ call'[i].pc # "idle"

\* the frame f has touched nothing: no client, no ledger call, no variant call
NoSideEffects(f) ==
  /\ f.clients = 0
  /\ f.registers = 0
  /\ f.unregisters = 0
  /\ f.executes = 0
  /\ f.rollbacks = 0
  /\ f.enforces = 0

ConcurrencyRejection(f) ==
  /\ f.pc = "returned"
  /\ f.validation # None
  /\ ~f.validation[1].approved
  /\ f.validation[1].reason[1] = "Concurrent experiment limit reached ("

\* C1: with concurrent run_one invocations on one controller, interleaved at
\* the awaits of execute and rollback, the ledger never holds more than
\* max_concurrent_experiments entries.
C1_LedgerWithinCeiling == Len(active) <= config.max_concurrent_experiments

\* C1 witness: the ledger is full with an execution in flight and another
\* invocation was rejected for the concurrency ceiling.
C1_Witness ==
  /\ Len(active) = config.max_concurrent_experiments
  /\ \E i, j \in Callers :
       /\ i # j
       /\ call[i].pc \in {"execute", "rollback"}
       /\ ConcurrencyRejection(call[j])
       /\ call[j].result[1].status = SKIPPED

\* C2: a run_one that registered has, when it returns, called
\* unregister_active exactly once.
C2_UnregisteredExactlyOnce ==
  \A i \in Invocations :
    (call[i].pc = "returned" /\ call[i].registers = 1) => call[i].unregisters = 1

\* C3: a returned record has rollback_performed only if auto_rollback is on
\* and the variant's rollback returned (did not raise, did not time out).
C3_RollbackPerformedMeansRolledBack ==
  \A i \in Invocations :
    (call[i].pc = "returned" /\ call[i].result[1].rollback_performed)
      => (config.auto_rollback /\ call[i].rollback = "returned")

\* C4: run_one never raises: no invocation is left by an exception.
C4_RunOneNeverRaises == \A i \in Invocations : call[i].pc # "raised"

\* C5: in a real run, run_plan's results are the records of a prefix of the
\* plan in plan order; a FAILED record is the last one, ends the plan, and no
\* later entry was handed to run_one; a plan that returned short of its end
\* ends on a FAILED record (COMPLETED and SKIPPED never stop it).
C5_FailFast ==
  (~plan_dry_run /\ plan_pc # "idle") =>
    /\ PrefixOfPlan
    /\ idx \in {Len(results), Len(results) + 1}
    /\ \A k \in 1..Len(results) :
         results[k].status = FAILED =>
           /\ k = Len(results)
           /\ idx = k
           /\ plan_pc = "returned"
           /\ call[Runner].pc = "returned"
           /\ call[Runner].entry = plan[k]
    /\ (plan_pc = "returned" /\ Len(results) < Len(plan)) =>
         /\ Len(results) >= 1
         /\ results[Len(results)].status = FAILED

\* C5 witness: a real run of a two-entry plan returned after its first entry
\* failed.
C5_Witness ==
  /\ ~plan_dry_run
  /\ plan_pc = "returned"
  /\ Len(plan) = 2
  /\ Len(results) = 1
  /\ results[1].status = FAILED

\* C6: a step of a dry-run run_one returns at once, constructs no client,
\* calls neither execute nor rollback nor register_active, and leaves the
\* ledger as it was; so does every step of a dry-run run_plan.
C6_DryRunTouchesNothing ==
  [][ /\ \A i \in Invocations :
           (Ran(i) /\ call'[i].dry_run) =>
             /\ call'[i].pc = "returned"
             /\ NoSideEffects(call'[i])
             /\ active' = active
      /\ (plan_pc' # "idle" /\ plan_dry_run') => active' = active ]_vars

\* C6 witness: a dry run returned its dry-run record on a non-empty ledger.
C6_Witness ==
  /\ plan_dry_run
  /\ call[Runner].pc = "returned"
  /\ call[Runner].result[1].dry_run
  /\ Len(active) > 0

\* the controller's policy admits entry e on the ledger as it is
WithinPolicy(e) ==
  /\ NamespaceOf(e) \notin config.excluded_namespaces
  /\ \A v \in Variants :
       v[1] = e.experiment =>
         \/ v[2] = config.max_blast_radius
         \/ <<v[2], config.max_blast_radius>> \in
              {<<LOW, MEDIUM>>, <<LOW, HIGH>>, <<MEDIUM, HIGH>>}
  /\ Len(active) < config.max_concurrent_experiments

\* C7 as stated: in dry-run mode every entry yields COMPLETED with dry_run.
C7_EveryDryRunEntryCompleted ==
  plan_dry_run =>
    \A k \in 1..Len(results) : results[k].status = COMPLETED /\ results[k].dry_run

\* C7 amended: in dry-run mode an entry yields COMPLETED with dry_run=true
\* exactly when its name is in the catalog and the controller approves it; an
\* unknown name yields FAILED and a rejected entry SKIPPED, with dry_run=false.
C7_DryRunApprovedCompleted ==
  plan_dry_run =>
    \A k \in 1..Len(results) :
      LET e == plan[k]
          r == results[k]
      IN  /\ RecordOf(r, e)
          /\ (e.experiment \in list_names /\ WithinPolicy(e))
               => (r.status = COMPLETED /\ r.dry_run)
          /\ e.experiment \notin list_names => (r.status = FAILED /\ ~r.dry_run)
          /\ (e.experiment \in list_names /\ ~WithinPolicy(e))
               => (r.status = SKIPPED /\ ~r.dry_run)

\* C7 witness: a dry-run plan returned a COMPLETED dry-run record and a record
\* that is not COMPLETED.
C7_Witness ==
  /\ plan_dry_run
  /\ plan_pc = "returned"
  /\ \E k \in 1..Len(results) : results[k].status = COMPLETED /\ results[k].dry_run
  /\ \E k \in 1..Len(results) : results[k].status # COMPLETED

\* C8: a dry-run run_plan is never left by an exception and returns exactly
\* one record per plan entry, in plan order, whatever their statuses.
C8_DryRunNeverStopsEarly ==
  plan_dry_run =>
    /\ plan_pc # "raised"
    /\ PrefixOfPlan
    /\ plan_pc = "returned" => Len(results) = Len(plan)

\* C8 witness: a dry run of a two-entry plan whose first record is FAILED
\* returned two records.
C8_Witness ==
  /\ plan_dry_run
  /\ plan_pc = "returned"
  /\ Len(plan) = 2
  /\ Len(results) = 2
  /\ results[1].status = FAILED

\* C9: run_one on a name that is not in the catalog returns a FAILED record at
\* once: the controller is not consulted, the ledger is unchanged, no client
\* is constructed, neither execute nor rollback is called.
C9_UnknownNameNoSideEffects ==
  [][ \A i \in Invocations :
        (Ran(i) /\ call'[i].entry.experiment \notin list_names) =>
          /\ call'[i].pc = "returned"
          /\ call'[i].result[1].status = FAILED
          /\ RecordOf(call'[i].result[1], call'[i].entry)
          /\ call'[i].validation = None
          /\ NoSideEffects(call'[i])
          /\ active' = active ]_vars

\* C9 witness: a real run of an unknown name returned FAILED on a non-empty
\* ledger below the ceiling.
C9_Witness ==
  /\ call[Runner].pc = "returned"
  /\ ~call[Runner].dry_run
  /\ call[Runner].entry.experiment \notin list_names
  /\ call[Runner].result[1].status = FAILED
  /\ Len(active) > 0
  /\ Len(active) < config.max_concurrent_experiments

\* the blast radius of entry e's variant is above the configured ceiling
ExceedsCeiling(e) ==
  \E v \in Variants :
    /\ v[1] = e.experiment
    /\ <<v[2], config.max_blast_radius>> \in
         {<<MEDIUM, LOW>>, <<HIGH, LOW>>, <<HIGH, MEDIUM>>}

\* C10: run_one on an experiment whose blast radius exceeds the ceiling, dry
\* run or not, returns SKIPPED at once, calls neither execute nor rollback and
\* leaves the ledger unchanged.
C10_ExceedingRadiusSkipped ==
  [][ \A i \in Invocations :
        (Ran(i) /\ ExceedsCeiling(call'[i].entry)) =>
          /\ call'[i].pc = "returned"
          /\ call'[i].result[1].status = SKIPPED
          /\ NoSideEffects(call'[i])
          /\ active' = active ]_vars

\* C10 witness: a real run of a HIGH experiment in a namespace that is not
\* excluded, under a MEDIUM ceiling with room in the ledger, returned SKIPPED.
C10_Witness ==
  /\ call[Runner].pc = "returned"
  /\ ~call[Runner].dry_run
  /\ call[Runner].entry.experiment = "node-drain"
  /\ NamespaceOf(call[Runner].entry) \notin config.excluded_namespaces
  /\ config.max_blast_radius = MEDIUM
  /\ Len(active) < config.max_concurrent_experiments
  /\ call[Runner].result[1].status = SKIPPED

\* C11 as stated: run_one on an entry whose namespace (default "default") is
\* excluded returns SKIPPED and mutates nothing.
C11_ExcludedScopeSkipped ==
  [][ \A i \in Invocations :
        (Ran(i) /\ NamespaceOf(call'[i].entry) \in config.excluded_namespaces) =>
          /\ call'[i].pc = "returned"
          /\ call'[i].result[1].status = SKIPPED
          /\ NoSideEffects(call'[i])
          /\ active' = active ]_vars

\* C11 amended: run_one on an entry whose namespace (default "default") is
\* excluded returns at once and mutates nothing, whatever the blast radius and
\* the ledger size: the record is SKIPPED when the experiment name is in the
\* catalog and FAILED when it is not.
C11_ExcludedScopeNoMutation ==
  [][ \A i \in Invocations :
        (Ran(i) /\ NamespaceOf(call'[i].entry) \in config.excluded_namespaces) =>
          /\ call'[i].pc = "returned"
          /\ call'[i].result[1].status =
               IF call'[i].entry.experiment \in list_names THEN SKIPPED ELSE FAILED
          /\ NoSideEffects(call'[i])
          /\ active' = active ]_vars

\* C11 witness: a real run of a LOW experiment whose entry names no namespace,
\* with "default" excluded and room in the ledger, returned SKIPPED.
C11_Witness ==
  /\ call[Runner].pc = "returned"
  /\ ~call[Runner].dry_run
  /\ call[Runner].entry.namespace = Absent
  /\ call[Runner].entry.experiment = "pod-kill"
  /\ "default" \in config.excluded_namespaces
  /\ Len(active) < config.max_concurrent_experiments
  /\ call[Runner].result[1].status = SKIPPED

\* C12: enforce_rollback returns normally to run_one when the rollback it
\* awaited raised or timed out.
C12_EnforceRollbackAbsorbs ==
  \A i \in Invocations :
    call[i].rollback \in {"raised", "timeout"} =>
      /\ call[i].enforce = "returned"
      /\ call[i].pc = "returned"

\* C12 witness: a rollback timed out and enforce_rollback returned.
C12_Witness ==
  /\ call[Runner].rollback = "timeout"
  /\ call[Runner].enforce = "returned"

\* the ledger act holds an entry with the name and target of entry e
HoldsSlotOf(act, e) ==
  \E k \in 1..Len(act) : act[k].name = e.experiment /\ act[k].target = e.target

\* C13: the ledger as an enforce_rollback that awaited rollback leaves it
\* holds no entry with the experiment's name and target, however the rollback
\* ended.
C13_EnforceRollbackReleases ==
  \A i \in Invocations :
    (call[i].ledger1 # None /\ call[i].rollbacks = 1) =>
      ~HoldsSlotOf(call[i].ledger1[1], call[i].entry)

\* C13 witness: enforce_rollback returned after a rollback that raised, on a
\* ledger that held the slot and another campaign's.
C13_Witness ==
  /\ call[Runner].rollback = "raised"
  /\ call[Runner].ledger1 # None
  /\ Len(call[Runner].ledger0[1]) > 0
  /\ Len(call[Runner].ledger1[1]) > 0

\* C14: when run_one returns, the ledger is the ledger it was called on.
C14_LedgerRestored ==
  \A i \in Invocations :
    call[i].pc = "returned" => active = call[i].ledger0[1]

\* C15: a run_one whose execute raised has called enforce_rollback once and
\* rollback at most once, and returns FAILED with the raised message as error.
C15_ExecuteFailureRecorded ==
  \A i \in Invocations :
    /\ call[i].pc = "rollback" => (call[i].enforces = 1 /\ call[i].rollbacks = 1)
    /\ (call[i].pc = "returned" /\ call[i].exc # None) =>
         /\ call[i].enforces = 1
         /\ call[i].rollbacks = IF config.auto_rollback THEN 1 ELSE 0
         /\ call[i].result[1].status = FAILED
         /\ call[i].result[1].error = call[i].exc
         /\ call[i].exc[1] \in ExecErrors

\* C15 witness: execute raised the 404 failure, rollback raised too, and the
\* record carries the 404 message.
C15_Witness ==
  /\ call[Runner].pc = "returned"
  /\ call[Runner].rollback = "raised"
  /\ call[Runner].result[1].error = <<"ApiException: (404)">>

\* the three checks of validate on the frame f: which of them fail
ScopeExcluded(f) == NamespaceOf(f.entry) \in config.excluded_namespaces
LedgerFull(f) == Len(f.ledger0[1]) >= config.max_concurrent_experiments

\* C16: validate approves with the all-checks-passed reason iff none of
\* exclusion, blast radius, concurrency fails, and otherwise rejects with the
\* reason of the first of them that fails, in that order.
C16_ValidateOrderedChain ==
  \A i \in Invocations :
    call[i].validation # None =>
      LET f == call[i]
          v == f.validation[1]
      IN  /\ v.approved <=> (~ScopeExcluded(f) /\ ~ExceedsCeiling(f.entry) /\ ~LedgerFull(f))
          /\ v.approved <=> (v.reason = <<"All safety checks passed">>)
          /\ ScopeExcluded(f) => v.reason[3] = "' is in the exclusion list"
          /\ (~ScopeExcluded(f) /\ ExceedsCeiling(f.entry))
               => v.reason[3] = "' exceeds maximum allowed '"
          /\ (~ScopeExcluded(f) /\ ~ExceedsCeiling(f.entry) /\ LedgerFull(f))
               => v.reason[1] = "Concurrent experiment limit reached ("

\* C16 witness: an entry failing all three checks was rejected for the
\* exclusion.
C16_Witness ==
  LET f == call[Runner] IN
  /\ f.validation # None
  /\ ScopeExcluded(f)
  /\ ExceedsCeiling(f.entry)
  /\ LedgerFull(f)
  /\ f.validation[1].reason[3] = "' is in the exclusion list"

\* the radius of entry e's variant and the ceiling
RadiusOf(e) == (CHOOSE v \in Variants : v[1] = e.experiment)[2]
StrictlyAbove(r, c) == <<r, c>> \in {<<MEDIUM, LOW>>, <<HIGH, LOW>>, <<HIGH, MEDIUM>>}

\* C17: with the scope not excluded and the ledger below the ceiling, validate
\* rejects with a reason containing "exceeds maximum allowed" iff the radius is
\* strictly above the ceiling in LOW < MEDIUM < HIGH, and approves otherwise.
C17_BlastRadiusStrictOrder ==
  \A i \in Invocations :
    (call[i].validation # None /\ ~ScopeExcluded(call[i]) /\ ~LedgerFull(call[i])) =>
      LET v == call[i].validation[1]
          above == StrictlyAbove(RadiusOf(call[i].entry), config.max_blast_radius)
      IN  /\ v.approved <=> ~above
          /\ above <=> (Len(v.reason) = 5 /\ v.reason[3] = "' exceeds maximum allowed '")
          /\ above => (v.reason[2] = RadiusOf(call[i].entry)
                       /\ v.reason[4] = config.max_blast_radius)

\* C17 witness: a MEDIUM experiment was approved under a MEDIUM ceiling.
C17_Witness ==
  LET f == call[Runner] IN
  /\ f.validation # None
  /\ ~ScopeExcluded(f)
  /\ f.entry.experiment = "configmap-mutation"
  /\ config.max_blast_radius = MEDIUM
  /\ f.validation[1].approved

\* C20: run_plan hands an entry to run_one only when the run_one of the entry
\* before has returned and its record is appended; while an execute or a
\* rollback of the plan is awaited, run_plan waits on that one entry.
C20_PlanSequential ==
  [][ /\ idx' # idx =>
           /\ call[Runner].pc \in {"idle", "returned"}
           /\ Len(results) = idx
      /\ call'[Runner].pc \in {"execute", "rollback"} =>
           /\ plan_pc' = "awaiting"
           /\ idx' = Len(results') + 1
           /\ call'[Runner].entry = plan'[idx'] ]_vars

\* C20 witness: the second entry of a plan is executing after the first
\* entry's run_one returned its completed record.
C20_Witness ==
  /\ call[Runner].pc = "execute"
  /\ idx = 2
  /\ Len(results) = 1
  /\ results[1].status = COMPLETED
  /\ results[1].completed_at # None

\* C18: validate_plan returns one ValidationResult per entry, in input order:
\* the unknown-experiment rejection for a name that is not in the catalog
\* (whatever its namespace), and otherwise what validate returns for the
\* entry's variant and namespace (default "default").
C18_ValidatePlanPerEntry ==
  \A c \in 1..Len(vresults) :
    /\ Len(vresults[c]) = Len(vplan)
    /\ \A k \in 1..Len(vplan) :
         LET e == vplan[k]
             v == vresults[c][k]
         IN  IF e.experiment \in list_names
               THEN v = validate_experiment(config, active, RadiusOf(e),
                                            IF e.namespace = Absent THEN "default"
                                            ELSE e.namespace)
               ELSE /\ ~v.approved
                    /\ v.reason[1] = "Unknown experiment type: "

\* C18 witness: a plan of an unknown name followed by an approved entry got
\* the unknown-experiment rejection and then the approval.
C18_Witness ==
  /\ Len(vplan) = 2
  /\ Len(vresults) >= 1
  /\ vplan[1].experiment \notin list_names
  /\ vplan[2].experiment \in list_names
  /\ vresults[1][1].reason[1] = "Unknown experiment type: "
  /\ vresults[1][2].approved

Rejected(f) ==
  /\ f.pc = "returned"
  /\ f.validation # None
  /\ ~f.validation[1].approved

\* C21 (as stated): a rejected entry's record is SKIPPED and its error is the
\* reason validate returned.
C21_RejectedErrorIsReason ==
  \A i \in Invocations :
    Rejected(call[i]) =>
      /\ call[i].result[1].status = SKIPPED
      /\ call[i].result[1].error = call[i].validation[1].reason

\* C21: a rejected entry's record is SKIPPED and its error is the text
\* "Safety check failed: " followed by the reason validate returned.
C21_RejectedErrorCarriesReason ==
  \A i \in Invocations :
    Rejected(call[i]) =>
      /\ call[i].result[1].status = SKIPPED
      /\ call[i].result[1].error = <<"Safety check failed: ">> \o call[i].validation[1].reason

\* C21 witness: an entry rejected for its blast radius returned its record.
C21_Witness ==
  /\ Rejected(call[Runner])
  /\ call[Runner].validation[1].reason[1] = "Experiment blast radius '"
  /\ call[Runner].result[1].error[1] = "Safety check failed: "

\* C22: when execute returns in a real run, run_one returns the variant's
\* record with status, name, target, namespace, error, rollback_performed,
\* dry_run and details as the variant set them and the two timing fields set,
\* calls neither enforce_rollback nor rollback, and run_plan goes on after a
\* COMPLETED or SKIPPED record.
C22_SuccessRecordUnchanged ==
  /\ \A i \in Invocations :
       (call[i].pc = "returned" /\ call[i].executed # None) =>
         LET v == call[i].executed[1]
             r == call[i].result[1]
         IN  /\ r = [v EXCEPT !.duration_seconds = r.duration_seconds,
                              !.completed_at = r.completed_at]
             /\ r.duration_seconds = "elapsed"
             /\ r.completed_at # None
             /\ call[i].enforces = 0
             /\ call[i].rollbacks = 0
  /\ (call[Runner].executed # None /\ plan_pc = "returned") =>
       Len(results) = Len(plan)

\* C22 witness: configmap-mutation's execute returned SKIPPED on the first
\* entry and run_plan went on to the second.
C22_Witness ==
  /\ Len(results) = 2
  /\ results[1].status = SKIPPED
  /\ results[1].error = <<"ConfigMap has no data keys to mutate">>
  /\ results[1].completed_at # None

\* C23: with auto_rollback off, the enforce_rollback call of a step awaits no
\* rollback and leaves the ledger as it found it.
C23_DisabledRollbackNoOp ==
  [][ \A i \in Invocations :
        (call'[i].enforces = call[i].enforces + 1 /\ ~config.auto_rollback) =>
          /\ call'[i].rollbacks = 0
          /\ call'[i].rollback = "none"
          /\ call'[i].ledger1 = <<active>> ]_vars

\* C23 witness: execute raised with auto_rollback off; enforce_rollback left
\* the slot in the ledger and run_one released it.
C23_Witness ==
  /\ ~config.auto_rollback
  /\ call[Runner].enforces = 1
  /\ call[Runner].pc = "returned"
  /\ HoldsSlotOf(call[Runner].ledger1[1], call[Runner].entry)
  /\ ~HoldsSlotOf(active, call[Runner].entry)

\* C26: a run_one that has registered, executed or rolled back resolved the
\* name in the catalog and holds the approval validate returned for this
\* entry on the ledger it was called on.
C26_ApprovedBeforeMutation ==
  \A i \in Invocations :
    (call[i].registers > 0 \/ call[i].executes > 0 \/ call[i].rollbacks > 0) =>
      /\ get(call[i].entry.experiment) # None
      /\ ~call[i].dry_run
      /\ call[i].validation # None
      /\ call[i].validation[1].approved
      /\ call[i].validation[1] =
           validate_experiment(config, call[i].ledger0[1],
                               blast_radius(get(call[i].entry.experiment)),
                               NamespaceOf(call[i].entry))

\* C26 witness: the HIGH variant is executing under a ceiling of HIGH.
C26_Witness ==
  /\ call[Runner].pc = "execute"
  /\ call[Runner].entry.experiment = "node-drain"
  /\ call[Runner].validation[1].approved

TerminalStatuses == {COMPLETED, FAILED, SKIPPED}

\* C27: every record run_one returns and every record in run_plan's results
\* has status COMPLETED, FAILED or SKIPPED; a record received from a variant
\* keeps the variant's status, and a record in results keeps its status.
C27_StatusTerminalSetOnce ==
  [][ /\ \A i \in Invocations :
           call'[i].result # None =>
             /\ call'[i].result[1].status \in TerminalStatuses
             /\ call'[i].executed # None =>
                  call'[i].result[1].status = call'[i].executed[1].status
      /\ \A k \in 1..Len(results') : results'[k].status \in TerminalStatuses
      /\ \A k \in 1..Len(results) :
           /\ Len(results') >= k
           /\ results'[k].status = results[k].status ]_vars

\* C27 witness: results holds a SKIPPED record and then the FAILED record of
\* an execute whose rollback returned.
C27_Witness ==
  /\ Len(results) = 2
  /\ results[1].status = SKIPPED
  /\ results[2].status = FAILED
  /\ results[2].rollback_performed
  /\ call[Runner].rollback = "returned"

\* the invocations whose execution is in flight: registered, not yet returned
InFlight == { i \in Callers : call[i].pc \in {"execute", "rollback"} }

\* C30: with concurrent run_one invocations, the executions in flight are
\* never more than max_concurrent_experiments, and each of them holds its
\* ledger entry until it returns.
C30_InFlightHoldSlots ==
  /\ Cardinality(InFlight) <= config.max_concurrent_experiments
  /\ Cardinality(InFlight) <= Len(active)
  /\ \A i \in InFlight : HoldsSlotOf(active, call[i].entry)

\* C25: a run_one whose enforce_rollback awaits the variant's rollback
\* eventually returns its record, whether or not the rollback completes.
C25_RollbackWaitBounded ==
  (call[Runner].pc = "rollback") ~> (call[Runner].pc = "returned")

\* the context lacks the field the rollback of variant name reads
LacksField(name, context) ==
  \/ context = None
  \/ ~\E kv \in context[1] : kv[1] = ContextField(name)

Mutating(api_call) ==
  api_call[1] \notin {"read_namespaced_pod", "read_namespaced_config_map"}

\* C24: a rollback called with the context absent or lacking the field it
\* reads makes no mutating API call and does not raise.
C24_MissingContextNoOp ==
  (rb.called /\ LacksField(rb.name, rb.context)) =>
    /\ \A k \in 1..Len(rb.calls) : ~Mutating(rb.calls[k])
    /\ ~rb.raised

\* C28: get(name) returns a variant whose declared name is name when a
\* variant of the modules imported declares it, None otherwise, and resolves
\* every name of list_names().
C28_GetExactMatch ==
  /\ reg.lookup # None =>
       LET n == reg.lookup[1].name
           r == reg.lookup[1].result
       IN  IF \E v \in Variants : v[1] = n /\ ModuleOf(v[1]) \in reg.imported
             THEN r \in Variants /\ r[1] = n
             ELSE r = None
  /\ \A n \in list_names_in(reg.imported) :
       /\ get_in(reg.imported, n) # None
       /\ get_in(reg.imported, n)[1] = n

\* C28 witness: get resolved a name and, in another call, returned None for a
\* name in another case, with some module imported and another not.
C28_Witness ==
  /\ reg.lookup # None
  /\ reg.lookup[1].name = "Pod-Kill"
  /\ reg.lookup[1].result = None
  /\ "pod" \in reg.imported
  /\ "node" \notin reg.imported

\* C29: the modules are scanned at most once in a process, and a construction
\* after the scan leaves the variants that can be discovered as they are.
C29_DiscoveryOnce ==
  [][ /\ reg'.scans <= 1
      /\ reg.discovered =>
           /\ reg'.discovered
           /\ reg'.scans = reg.scans
           /\ all_subclasses(reg'.imported) = all_subclasses(reg.imported) ]_vars

\* C29 witness: a second registry was constructed after a scan in which an
\* import failed.
C29_Witness ==
  /\ reg.constructions = 2
  /\ reg.scans = 1
  /\ reg.imported # ExperimentModules
  /\ reg.imported # {}

\* C31: while the rollback of a failing experiment is in progress, the ledger
\* holds the experiment's entry and counts every execution in flight, so that
\* validate at the ceiling rejects.
C31_SlotHeldDuringRollback ==
  \A i \in Callers :
    call[i].pc = "rollback" =>
      /\ HoldsSlotOf(active, call[i].entry)
      /\ Len(active) >= Cardinality(InFlight)

\* C32: the namespaced resources an approved experiment mutates are in its
\* entry's namespace, and none is in an excluded namespace.
C32_ExcludedScopesUntouched ==
  k8s.phase = "returned" =>
    /\ (k8s.scopes \ {ClusterScope}) \subseteq {NamespaceOf(k8s.entry)}
    /\ k8s.scopes \cap config.excluded_namespaces = {}

\* C33: after a pod-restart whose execute raised past the scale-down and a
\* run_one that returned with auto_rollback on, the deployment runs the
\* replicas it ran before.
C33_PartialFailureRestored ==
  ( /\ k8s.phase = "returned"
    /\ k8s.entry.experiment = "pod-restart"
    /\ k8s.execute = "raised"
    /\ k8s.scaled_down
    /\ config.auto_rollback ) =>
      EffectiveReplicas(k8s.replicas) = EffectiveReplicas(k8s.original)

\* C34: after a pod-restart whose execute returned, the deployment runs the
\* replicas it ran before.
C34_RestartKeepsReplicas ==
  ( /\ k8s.phase = "returned"
    /\ k8s.entry.experiment = "pod-restart"
    /\ k8s.execute = "returned" ) =>
      EffectiveReplicas(k8s.replicas) = EffectiveReplicas(k8s.original)

\* whether the controller approves entry e on an empty ledger, as that of
\* build_graph's controller is until the execute step
ApprovedOnEmpty(e) ==
  /\ get(LookupName(e)) # None
  /\ validate_experiment(config, <<>>, blast_radius(get(LookupName(e))),
                         NamespaceOf(e)).approved

\* the nodes of the graph past the conditional edge to execute
PastValidation == {"execute", "execute:await", "observe", "report", "END", "raised"}

\* C35: in the workflow, the plan handed to run_plan is the subsequence, in
\* order, of the planned entries that the controller approves, and the
\* violations are as many as the planned entries it rejects.
C35_ApprovedSubsequenceHanded ==
  /\ (wf.cmd = "run" /\ wf.node \in PastValidation) =>
       /\ wf.experiment_plan = SelectSeq(wf.planned, ApprovedOnEmpty)
       /\ Len(wf.safety_violations) = Len(wf.planned) - Len(wf.experiment_plan)
  /\ (wf.cmd = "run" /\ wf.node \in PastValidation \ {"execute"}) =>
       plan = SelectSeq(wf.planned, ApprovedOnEmpty)

C35_Witness ==
  /\ wf.cmd = "run"
  /\ wf.node = "observe"
  /\ Len(wf.planned) = 2
  /\ ~ApprovedOnEmpty(wf.planned[1])
  /\ plan = <<wf.planned[2]>>
  /\ Len(wf.safety_violations) = 1
  /\ Len(results) = 1

\* C36: a run of the workflow eventually reaches END (or is left by what
\* run_plan raises).
C36_WorkflowTerminates ==
  (wf.cmd = "run") ~> (wf.node \in {"END", "raised"})

\* C37: when the configuration's dry_run is true or --dry-run is given, the
\* execute command calls run_one and the workflow calls run_plan in dry-run
\* mode, and no variant's execute is called.
C37_DryRunHonoured ==
  (wf.flag \/ wf.safety_dry_run) =>
    /\ wf.cmd = "execute" =>
         /\ call[1].pc # "idle" => call[1].dry_run
         /\ call[1].executes = 0
    /\ wf.cmd = "run" =>
         /\ plan_pc # "idle" => plan_dry_run
         /\ call[Runner].pc # "idle" => call[Runner].dry_run
         /\ call[Runner].executes = 0

C37_Witness ==
  /\ wf.cmd = "run"
  /\ ~wf.flag
  /\ wf.safety_dry_run
  /\ wf.node = "END"
  /\ Len(results) = 2
  /\ \A k \in 1..2 : results[k].status = COMPLETED

====
